---- MODULE Spec2Model ----
(***************************************************************************)
(* Model of the screenshot service (src/src/app.js, second variant, lines  *)
(* 933-1813, with the configuration of config/default.js).                 *)
(*                                                                         *)
(* The service runs on Node's single-threaded event loop: every piece of   *)
(* code between two `await`s runs atomically, and every `await` of an      *)
(* engine call (puppeteer.launch, browser.newPage, page.setContent,        *)
(* page.screenshot, page.close, browser.pages, browser.close) is a point   *)
(* where other requests, health-probe ticks and engine events interleave.  *)
(* One action of the model is one such atomic piece.                       *)
(***************************************************************************)
EXTENDS Integers, FiniteSets, Sequences, TLC

(***************************************************************************)
(* Bounds of the model.                                                    *)
(***************************************************************************)
\* requests that arrive in one behaviour of the admission specification
\* (caps performanceStats.totalRequests)
MaxRequests == 4
\* requests that arrive in one behaviour of the full specification
MaxPoolRequests == 2
\* browser instances that are launched in one behaviour (the first one is
\* the instance launched by startServer)
MaxInst == 2

(***************************************************************************)
(* Configuration (config/default.js).                                      *)
(***************************************************************************)
maxConcurrentPages == 3
\* config.security.apiKey when API_KEY is not set
defaultApiKey == "disabled"
restartThreshold == 100
maxWidth == 4096
maxHeight == 4096
supportedFormats == {"png", "jpeg", "webp"}

Insts == 1..MaxInst

(***************************************************************************)
(* JavaScript values of the request body fields. A string is the sequence  *)
(* of its lexical tokens (the empty string is the empty sequence); a       *)
(* boolean keeps its truth value in n (1 is true).                         *)
(***************************************************************************)
Undef == [t |-> "undefined", n |-> 0, s |-> <<>>]
Num(k) == [t |-> "number", n |-> k, s |-> <<>>]
Str(x) == [t |-> "string", n |-> 0, s |-> x]
Bool(b) == [t |-> "boolean", n |-> IF b THEN 1 ELSE 0, s |-> <<>>]

\* JavaScript truthiness of a body field
Truthy(v) ==
  CASE v.t = "undefined" -> FALSE
    [] v.t = "number" -> v.n # 0
    [] v.t = "string" -> v.s # <<>>
    [] v.t = "boolean" -> v.n = 1

\* config.screenshot.supportedFormats.includes(v)
IsSupportedFormat(v) == v.t = "string" /\ \E f \in supportedFormats : v.s = <<f>>

\* validateScreenshotParams: the set of fields that produce an error message
\* (a body is kept flat: format, smartCrop and quality are the fields of its
\* options)
validateScreenshotParams(params) ==
  (IF ~Truthy(params.htmlContent) \/ params.htmlContent.t # "string"
     THEN {"htmlContent"} ELSE {})
  \cup
  (IF Truthy(params.width)
      /\ (params.width.t # "number" \/ params.width.n <= 0 \/ params.width.n > maxWidth)
     THEN {"width"} ELSE {})
  \cup
  (IF Truthy(params.height)
      /\ (params.height.t # "number" \/ params.height.n <= 0 \/ params.height.n > maxHeight)
     THEN {"height"} ELSE {})
  \cup
  (IF Truthy(params.format)
      /\ ~IsSupportedFormat(params.format)
     THEN {"format"} ELSE {})

\* request bodies that arrive in the lifecycle specifications
Bodies ==
  { [htmlContent |-> Str(<<"<p>text</p>">>), width |-> Undef, height |-> Undef,
     format |-> Undef, smartCrop |-> Undef, quality |-> Undef],
    [htmlContent |-> Undef, width |-> Num(800), height |-> Num(600),
     format |-> Str(<<"png">>), smartCrop |-> Undef, quality |-> Undef],
    [htmlContent |-> Str(<<"<p>text</p>">>), width |-> Num(maxWidth + 1), height |-> Undef,
     format |-> Str(<<"jpeg">>), smartCrop |-> Undef, quality |-> Num(50)] }

\* no request has arrived yet
NoRequest ==
  [htmlContent |-> Undef, width |-> Undef, height |-> Undef, format |-> Undef,
   smartCrop |-> Undef, quality |-> Undef]

\* where a /screenshot handler can be suspended: the engine call it awaits
\* and the browser instance the call is on (0 while the instance is not
\* known: the launch). Handlers are anonymous closures, so the state keeps
\* how many handlers are suspended at each place
HandlerStates ==
  {<<"launch", 0>>} \cup ({"newPage", "render", "screenshot", "close"} \X Insts)

\* where a health-probe callback can be suspended
ProbeStates == {<<"launch", 0>>} \cup ({"pages", "close"} \X Insts)

VARIABLES
  browser,                \* the global `browser`: 0 is null, else an instance
  instState,              \* engine instances: "unborn", "live", "crashed", "closed"
  openPages,              \* per instance, the pages opened by requests and still open
  timers,                 \* number of registered health-probe setInterval timers
  activePagesCount,       \* the global admission counter
  totalRequestsProcessed, \* the global served-request counter
  totalRequests,          \* performanceStats.totalRequests
  handlers,               \* number of /screenshot handlers suspended at each place
  probes,                 \* number of health-probe callbacks suspended at each place
  lastResponse,           \* the response sent last
  request,                \* req.body of the request that arrived last
  stage,                  \* the followed request: the part of the handler it runs next
  detectedMode,           \* the followed request: its performance mode
  elements,               \* the followed request: the elements page.evaluate found
  contentBounds,          \* the followed request: what page.evaluate returned
  clipRegion,             \* the followed request: the region given to page.screenshot
  images,                 \* the followed request: the images of its document
  fonts,                  \* the followed request: how its font wait ended
  elapsed,                \* the followed request: seconds spent in waitForAllImages
  imageWait,              \* the followed request: the wait that was made for its images
  screenshotOptions,      \* the followed request: the argument of page.screenshot
  contentType,            \* the followed request: the Content-Type of its response
  successfulRequests,     \* performanceStats.successfulRequests
  failedRequests,         \* performanceStats.failedRequests
  totalProcessingTime,    \* performanceStats.totalProcessingTime
  processingTime,         \* the processingTime of the response sent last
  healthStatus,           \* healthStatus.status in the body of the last /health response
  server,                 \* the process: "starting", "listening" or "exit1"
  apiKey,                 \* config.security.apiKey
  xTotalProcessed,        \* the X-Total-Processed header of the last 200
  reqHeaders,             \* the key headers of the /screenshot request that arrived last
  additionalConcurrencyWait, \* the followed request: its concurrency allowance (ms)
  delay                   \* the followed request: the sleep after its image detection (ms)

\* the state of the service
serviceVars == <<browser, instState, openPages, timers, activePagesCount,
                 totalRequestsProcessed, totalRequests, handlers, probes, lastResponse>>

\* the locals of the handler that runs the followed request
renderVars == <<stage, detectedMode, elements, contentBounds, clipRegion,
                images, fonts, elapsed, imageWait, screenshotOptions, contentType,
                additionalConcurrencyWait, delay>>

\* the two sleeps of the followed request that depend on the load
settleVars == <<additionalConcurrencyWait, delay>>

\* performanceStats but totalRequests, and the processing time measured last
statsVars == <<successfulRequests, failedRequests, totalProcessingTime, processingTime>>

\* the statistics, the body of /health and the process
processVars == <<statsVars, healthStatus, server, apiKey, xTotalProcessed, reqHeaders>>

vars == <<serviceVars, request, renderVars, processVars>>

\* a response: its status, in the body of a 429 the two concurrency
\* figures (0 in the other responses, which do not carry them) and in the
\* body of a 400 the details (the fields that have a validation error)
NoResponse == [status |-> 0, activePagesCount |-> 0, maxConcurrentPages |-> 0, details |-> {}]

Response(st) ==
  [status |-> st, activePagesCount |-> 0, maxConcurrentPages |-> 0, details |-> {}]

\* a value that is null
Null == [x |-> -1, y |-> -1, width |-> -1, height |-> -1]

\* a request without x-api-key and authorization headers
NoHeaders == [xApiKey |-> Undef, authorization |-> Undef]

\* page.screenshot has not been called
NoOptions == [type |-> Undef, clip |-> Null, quality |-> Undef]

\* browser.isConnected()
isConnected(b) == instState[b] = "live"

\* (mutant of BrowserUnavailable: only the null handle is tested)
BrowserMissing == browser = 0

\* `!browser || !browser.isConnected()`
BrowserUnavailable == browser = 0 \/ ~isConnected(browser)

\* the identity of the next instance that a launch returns
FreshInst ==
  CHOOSE b \in Insts : instState[b] = "unborn" /\ \A c \in Insts : c < b => instState[c] # "unborn"

\* the sum of f[x] over x in S, for f a function to the naturals
SumOver(f, S) == Cardinality(UNION {{x} \X (1..f[x]) : x \in S})

\* number of handlers suspended at one of the calls in `calls`
HandlersAt(calls) == SumOver(handlers, {h \in HandlerStates : h[1] \in calls})

\* number of health-probe callbacks suspended at one of the calls in `calls`
ProbesAt(calls) == SumOver(probes, {h \in ProbeStates : h[1] \in calls})

\* total number of render sessions (pages) that are open
OpenPageCount == SumOver(openPages, Insts)

\* puppeteer.launch calls that have been started and have not returned
LaunchesInFlight == HandlersAt({"launch"}) + ProbesAt({"launch"})

Suspend(f, at) == [f EXCEPT ![at] = @ + 1]
Resume(f, at) == [f EXCEPT ![at] = @ - 1]

\* quiescent states of a started server: startServer has launched the first
\* browser and registered its health-probe timer; the served counter is 0 or
\* has reached the restart threshold after that many sequential requests
InitialProcessed == {0, restartThreshold}

InitConfigured(keys) ==
  /\ browser = 1
  /\ instState = [b \in Insts |-> IF b = 1 THEN "live" ELSE "unborn"]
  /\ openPages = [b \in Insts |-> 0]
  /\ timers = 1
  /\ activePagesCount = 0
  /\ totalRequestsProcessed \in InitialProcessed
  /\ totalRequests = 0
  /\ handlers = [h \in HandlerStates |-> 0]
  /\ probes = [h \in ProbeStates |-> 0]
  /\ lastResponse = NoResponse
  /\ request = NoRequest
  /\ stage = "idle"
  /\ detectedMode = "none"
  /\ elements = <<>>
  /\ contentBounds = Null
  /\ clipRegion = Null
  /\ images = <<>>
  /\ fonts = "none"
  /\ elapsed = 0
  /\ imageWait = "none"
  /\ screenshotOptions = NoOptions
  /\ contentType = Undef
  /\ successfulRequests = 0
  /\ failedRequests = 0
  /\ totalProcessingTime = 0
  /\ processingTime = 0
  /\ healthStatus = "none"
  /\ server = "listening"
  /\ apiKey \in keys
  /\ xTotalProcessed = 0
  /\ reqHeaders = NoHeaders
  /\ additionalConcurrencyWait = 0
  /\ delay = 0

\* the default configuration
Init == InitConfigured({defaultApiKey})

(***************************************************************************)
(* POST /screenshot: concurrencyControl and the handler.                   *)
(***************************************************************************)
\* the processing times that Date.now() - req.startTime can measure
ProcessingTimes == {1, 2}

\* (mutant of isSuccess: only the 5xx responses count as failed)
isSuccessBelow500(statusCode) == statusCode < 500

\* `res.statusCode < 400`
isSuccess(statusCode) == statusCode < 400

\* the res.send that performanceMiddleware installs, called once for a
\* response (by res.json too): the processing time is measured and added
\* and the response is counted as successful or failed
send(statusCode) ==
  /\ \E t \in ProcessingTimes :
       /\ processingTime' = t
       /\ totalProcessingTime' = totalProcessingTime + t
  /\ IF isSuccess(statusCode)
       THEN successfulRequests' = successfulRequests + 1 /\ UNCHANGED failedRequests
       ELSE failedRequests' = failedRequests + 1 /\ UNCHANGED successfulRequests

\* (mutant of Busy: the comparison is off by one)
BusyOffByOne == activePagesCount > maxConcurrentPages

\* concurrencyControl: the request is rejected
Busy == activePagesCount >= maxConcurrentPages

\* (mutant of ServiceBusy: the counter is incremented before it is reported)
ServiceBusyAfterIncrement ==
  [status |-> 429, activePagesCount |-> activePagesCount + 1,
   maxConcurrentPages |-> maxConcurrentPages, details |-> {}]

\* concurrencyControl: the 429 response and the two figures in its body
ServiceBusy ==
  [status |-> 429, activePagesCount |-> activePagesCount,
   maxConcurrentPages |-> maxConcurrentPages, details |-> {}]

\* (mutant of Admit: the counter is incremented in the middleware and again
\* in the handler)
AdmitTwice(n) == n + 2

\* the handler's `activePagesCount++`
Admit(n) == n + 1

\* (mutant of Release: finally does not decrement)
ReleaseForgotten(n) == n

\* the handler's `activePagesCount--` in finally
Release(n) == n - 1

\* (mutant of AfterFinally: finally does not close the page)
AfterFinallyNoClose(h, hasPage, b) == h

\* finally after its synchronous part: the handler awaits page.close() when
\* `page` is set (it is set once newPage has returned) and returns otherwise
AfterFinally(h, hasPage, b) == IF hasPage THEN Suspend(h, <<"close", b>>) ELSE h

\* (mutant of CatchFinally: catch sends no response)
CatchFinallySilent(at, hasPage) ==
  /\ handlers[at] > 0
  /\ activePagesCount' = Release(activePagesCount)
  /\ handlers' = AfterFinally(Resume(handlers, at), hasPage, at[2])
  /\ UNCHANGED <<lastResponse, statsVars>>

\* an engine call awaited at `at` throws: catch answers 500 and the
\* synchronous part of finally runs
CatchFinally(at, hasPage) ==
  /\ handlers[at] > 0
  /\ lastResponse' = Response(500)
  /\ send(500)
  /\ activePagesCount' = Release(activePagesCount)
  /\ handlers' = AfterFinally(Resume(handlers, at), hasPage, at[2])

\* (mutant of InvalidParameters: the 400 does not list the errors)
InvalidParametersUnlisted(errors) == Response(400)

\* the handler's 400 response and the details in its body
InvalidParameters(errors) == [Response(400) EXCEPT !.details = errors]

\* String.prototype.replace(token, ''): the first occurrence of the token is
\* removed
RECURSIVE replaceFirst(_, _)
replaceFirst(x, token) ==
  IF x = <<>> THEN <<>>
  ELSE IF Head(x) = token THEN Tail(x)
  ELSE <<Head(x)>> \o replaceFirst(Tail(x), token)

\* simpleAuth: `req.headers['x-api-key'] ||
\* req.headers['authorization']?.replace('Bearer ', '')`
presentedKey(headers) ==
  IF Truthy(headers.xApiKey) THEN headers.xApiKey
  ELSE IF headers.authorization = Undef THEN Undef
  ELSE Str(replaceFirst(headers.authorization.s, "Bearer "))

\* (mutant of authenticate: any key is accepted)
authenticateAnyKey(headers) ==
  IF apiKey = "" \/ apiKey = "disabled" THEN 0
  ELSE IF ~Truthy(presentedKey(headers)) THEN 401
  ELSE 0

\* simpleAuth for /screenshot: 0 when next() is called, else the status of
\* the response
authenticate(headers) ==
  IF apiKey = "" \/ apiKey = "disabled" THEN 0
  ELSE IF ~Truthy(presentedKey(headers)) THEN 401
  ELSE IF presentedKey(headers) # Str(<<apiKey>>) THEN 403
  ELSE 0

\* performanceMiddleware, authenticate, concurrencyControl and the handler up
\* to its first await (the requests stay under the limit of the rate limiter)
PostScreenshotWith(limit, headers) ==
  /\ server = "listening"
  /\ totalRequests < limit
  /\ totalRequests' = totalRequests + 1
  /\ reqHeaders' \in headers
  /\ \E body \in Bodies :
       /\ request' = body
       /\ IF authenticate(reqHeaders') # 0
            THEN /\ lastResponse' = Response(authenticate(reqHeaders'))
                 /\ send(authenticate(reqHeaders'))
                 /\ UNCHANGED <<activePagesCount, handlers>>
            ELSE IF Busy
            THEN /\ lastResponse' = ServiceBusy
                 /\ send(429)
                 /\ UNCHANGED <<activePagesCount, handlers>>
            ELSE IF validateScreenshotParams(body) # {}
              THEN /\ lastResponse' = InvalidParameters(validateScreenshotParams(body))
                   /\ send(400)
                   /\ activePagesCount' = Release(Admit(activePagesCount))
                   /\ handlers' = AfterFinally(handlers, FALSE, 0)
              ELSE /\ activePagesCount' = Admit(activePagesCount)
                   /\ handlers' = IF BrowserUnavailable
                                    THEN Suspend(handlers, <<"launch", 0>>)
                                    ELSE Suspend(handlers, <<"newPage", browser>>)
                   /\ UNCHANGED <<lastResponse, statsVars>>
  /\ UNCHANGED <<browser, instState, openPages, timers, totalRequestsProcessed, probes>>
  /\ UNCHANGED <<renderVars, healthStatus, server, apiKey, xTotalProcessed>>

\* a /screenshot request without key headers
PostScreenshot(limit) == PostScreenshotWith(limit, {NoHeaders})

\* initializeBrowser after puppeteer.launch has returned: the global handle is
\* overwritten and one more health-probe timer is registered
InitializeBrowserDone ==
  /\ \E b \in Insts : instState[b] = "unborn"
  /\ browser' = FreshInst
  /\ instState' = [instState EXCEPT ![FreshInst] = "live"]
  /\ timers' = timers + 1

\* the launch started by a handler returns; the handler goes on to newPage on
\* the global handle
HandlerLaunchReturns ==
  /\ handlers[<<"launch", 0>>] > 0
  /\ InitializeBrowserDone
  /\ handlers' = Suspend(Resume(handlers, <<"launch", 0>>), <<"newPage", FreshInst>>)
  /\ UNCHANGED <<openPages, activePagesCount, totalRequestsProcessed, totalRequests,
                 probes, lastResponse>>
  /\ UNCHANGED <<request, renderVars, processVars>>

\* the launch started by a handler throws
HandlerLaunchThrows ==
  /\ CatchFinally(<<"launch", 0>>, FALSE)
  /\ UNCHANGED <<browser, instState, openPages, timers, totalRequestsProcessed,
                 totalRequests, probes>>
  /\ UNCHANGED <<request, renderVars, healthStatus, server, apiKey, xTotalProcessed, reqHeaders>>

\* browser.newPage() returns a page
NewPageReturns(b) ==
  /\ handlers[<<"newPage", b>>] > 0
  /\ isConnected(b)
  /\ openPages' = [openPages EXCEPT ![b] = @ + 1]
  /\ handlers' = Suspend(Resume(handlers, <<"newPage", b>>), <<"render", b>>)
  /\ UNCHANGED <<browser, instState, timers, activePagesCount, totalRequestsProcessed,
                 totalRequests, probes, lastResponse>>
  /\ UNCHANGED <<request, renderVars, processVars>>

\* browser.newPage() throws: `page` stays null
NewPageThrows(b) ==
  /\ CatchFinally(<<"newPage", b>>, FALSE)
  /\ UNCHANGED <<browser, instState, openPages, timers, totalRequestsProcessed,
                 totalRequests, probes>>
  /\ UNCHANGED <<request, renderVars, healthStatus, server, apiKey, xTotalProcessed, reqHeaders>>

\* the calls between newPage and screenshot (setViewport, setContent, the
\* image detection) have returned
RenderReturns(b) ==
  /\ handlers[<<"render", b>>] > 0
  /\ isConnected(b)
  /\ handlers' = Suspend(Resume(handlers, <<"render", b>>), <<"screenshot", b>>)
  /\ UNCHANGED <<browser, instState, openPages, timers, activePagesCount,
                 totalRequestsProcessed, totalRequests, probes, lastResponse>>
  /\ UNCHANGED <<request, renderVars, processVars>>

\* one of the calls between newPage and screenshot throws
RenderThrows(b) ==
  /\ CatchFinally(<<"render", b>>, TRUE)
  /\ UNCHANGED <<browser, instState, openPages, timers, totalRequestsProcessed,
                 totalRequests, probes>>
  /\ UNCHANGED <<request, renderVars, healthStatus, server, apiKey, xTotalProcessed, reqHeaders>>

\* (mutant of XTotalProcessed: the header is set before the increment)
XTotalProcessedBefore(before, after) == before

\* the X-Total-Processed header: totalRequestsProcessed, read after
\* `totalRequestsProcessed++`
XTotalProcessed(before, after) == after

\* page.screenshot returns: the image is sent, then finally runs
ScreenshotReturns(b) ==
  /\ handlers[<<"screenshot", b>>] > 0
  /\ isConnected(b)
  /\ totalRequestsProcessed' = totalRequestsProcessed + 1
  /\ lastResponse' = Response(200)
  /\ activePagesCount' = Release(activePagesCount)
  /\ handlers' = AfterFinally(Resume(handlers, <<"screenshot", b>>), TRUE, b)
  /\ UNCHANGED <<browser, instState, openPages, timers, totalRequests, probes>>
  /\ send(200)
  /\ xTotalProcessed' = XTotalProcessed(totalRequestsProcessed, totalRequestsProcessed')
  /\ UNCHANGED <<request, renderVars, healthStatus, server, apiKey, reqHeaders>>

\* page.screenshot throws
ScreenshotThrows(b) ==
  /\ CatchFinally(<<"screenshot", b>>, TRUE)
  /\ UNCHANGED <<browser, instState, openPages, timers, totalRequestsProcessed,
                 totalRequests, probes>>
  /\ UNCHANGED <<request, renderVars, healthStatus, server, apiKey, xTotalProcessed, reqHeaders>>

\* page.close() in finally returns: the page is closed
PageCloseReturns(b) ==
  /\ handlers[<<"close", b>>] > 0
  /\ isConnected(b)
  /\ openPages' = [openPages EXCEPT ![b] = @ - 1]
  /\ handlers' = Resume(handlers, <<"close", b>>)
  /\ UNCHANGED <<browser, instState, timers, activePagesCount, totalRequestsProcessed,
                 totalRequests, probes, lastResponse>>
  /\ UNCHANGED <<request, renderVars, processVars>>

\* (mutant of closeCatch: the error of page.close() reaches a handler that
\* answers 500)
closeRethrow(response) == Response(500)

\* the catch around page.close() in finally: only a log line
closeCatch(response) == response

\* page.close() in finally throws because the page's target is gone with its
\* browser; the error is swallowed
PageCloseThrows(b) ==
  /\ handlers[<<"close", b>>] > 0
  /\ ~isConnected(b)
  /\ handlers' = Resume(handlers, <<"close", b>>)
  /\ lastResponse' = closeCatch(lastResponse)
  /\ UNCHANGED <<browser, instState, openPages, timers, activePagesCount,
                 totalRequestsProcessed, totalRequests, probes>>
  /\ UNCHANGED <<request, renderVars, processVars>>

(***************************************************************************)
(* The health probe (the setInterval callback of initializeBrowser) and    *)
(* restartBrowser.                                                         *)
(***************************************************************************)
\* (mutant of RestartDue: the threshold itself triggers the restart)
RestartDueAtThreshold == totalRequestsProcessed >= restartThreshold

\* the probe's condition for a planned restart
RestartDue == totalRequestsProcessed > restartThreshold

\* a registered timer fires: the callback up to its first await, which is
\* browser.pages() when the browser is connected and the launch of
\* initializeBrowser otherwise. The callbacks of different timers overlap; a
\* timer fires again (after healthCheckInterval, 60 s) when its previous
\* callback has finished
HealthTick ==
  /\ ProbesAt({"launch", "pages", "close"}) < timers
  /\ probes' = IF ~BrowserUnavailable
                 THEN Suspend(probes, <<"pages", browser>>)
                 ELSE Suspend(probes, <<"launch", 0>>)
  /\ UNCHANGED <<browser, instState, openPages, timers, activePagesCount,
                 totalRequestsProcessed, totalRequests, handlers, lastResponse>>
  /\ UNCHANGED <<request, renderVars, processVars>>

\* browser.pages() returns: the threshold is tested and restartBrowser, when
\* called, runs up to its await of browser.close() on the global handle
PagesReturns(b) ==
  /\ probes[<<"pages", b>>] > 0
  /\ isConnected(b)
  /\ probes' = IF RestartDue
                 THEN Suspend(Resume(probes, <<"pages", b>>), <<"close", browser>>)
                 ELSE Resume(probes, <<"pages", b>>)
  /\ UNCHANGED <<browser, instState, openPages, timers, activePagesCount,
                 totalRequestsProcessed, totalRequests, handlers, lastResponse>>
  /\ UNCHANGED <<request, renderVars, processVars>>

\* browser.pages() throws: the callback's catch logs the error
PagesThrows(b) ==
  /\ probes[<<"pages", b>>] > 0
  /\ probes' = Resume(probes, <<"pages", b>>)
  /\ UNCHANGED <<browser, instState, openPages, timers, activePagesCount,
                 totalRequestsProcessed, totalRequests, handlers, lastResponse>>
  /\ UNCHANGED <<request, renderVars, processVars>>

\* restartBrowser after browser.close() has returned: the instance and its
\* pages are gone, the served counter is reset and initializeBrowser is
\* called, which runs up to its await of puppeteer.launch
BrowserCloseReturns(b) ==
  /\ probes[<<"close", b>>] > 0
  /\ instState' = [instState EXCEPT ![b] = IF @ = "live" THEN "closed" ELSE @]
  /\ openPages' = [openPages EXCEPT ![b] = 0]
  /\ totalRequestsProcessed' = 0
  /\ probes' = Suspend(Resume(probes, <<"close", b>>), <<"launch", 0>>)
  /\ UNCHANGED <<browser, timers, activePagesCount, totalRequests, handlers, lastResponse>>
  /\ UNCHANGED <<request, renderVars, processVars>>

\* restartBrowser when browser.close() throws: the error is rethrown to the
\* callback's catch
BrowserCloseThrows(b) ==
  /\ probes[<<"close", b>>] > 0
  /\ probes' = Resume(probes, <<"close", b>>)
  /\ UNCHANGED <<browser, instState, openPages, timers, activePagesCount,
                 totalRequestsProcessed, totalRequests, handlers, lastResponse>>
  /\ UNCHANGED <<request, renderVars, processVars>>

\* the launch started by a callback (directly or through restartBrowser)
\* returns
ProbeLaunchReturns ==
  /\ probes[<<"launch", 0>>] > 0
  /\ InitializeBrowserDone
  /\ probes' = Resume(probes, <<"launch", 0>>)
  /\ UNCHANGED <<openPages, activePagesCount, totalRequestsProcessed, totalRequests,
                 handlers, lastResponse>>
  /\ UNCHANGED <<request, renderVars, processVars>>

\* the launch started by a callback throws: the callback's catch logs it
ProbeLaunchThrows ==
  /\ probes[<<"launch", 0>>] > 0
  /\ probes' = Resume(probes, <<"launch", 0>>)
  /\ UNCHANGED <<browser, instState, openPages, timers, activePagesCount,
                 totalRequestsProcessed, totalRequests, handlers, lastResponse>>
  /\ UNCHANGED <<request, renderVars, processVars>>

(***************************************************************************)
(* The engine: a running browser process can die at any time; its pages    *)
(* die with it.                                                            *)
(***************************************************************************)
Disconnect(b) ==
  /\ instState[b] = "live"
  /\ instState' = [instState EXCEPT ![b] = "crashed"]
  /\ openPages' = [openPages EXCEPT ![b] = 0]
  /\ UNCHANGED <<browser, timers, activePagesCount, totalRequestsProcessed,
                 totalRequests, handlers, probes, lastResponse>>
  /\ UNCHANGED <<request, renderVars, processVars>>

\* (mutant of healthDegraded: only the null handle is tested)
healthDegradedByHandle == browser = 0

\* GET /health: `!browser || !browser.isConnected()`
healthDegraded == browser = 0 \/ ~isConnected(browser)

\* GET /health: performanceMiddleware and the handler, which answers 503
\* with status degraded or 200 with status ok
GetHealth(limit) ==
  /\ server = "listening"
  /\ totalRequests < limit
  /\ totalRequests' = totalRequests + 1
  /\ IF healthDegraded
       THEN healthStatus' = "degraded" /\ lastResponse' = Response(503) /\ send(503)
       ELSE healthStatus' = "ok" /\ lastResponse' = Response(200) /\ send(200)
  /\ UNCHANGED <<browser, instState, openPages, timers, activePagesCount,
                 totalRequestsProcessed, handlers, probes>>
  /\ UNCHANGED <<request, renderVars, server, apiKey, xTotalProcessed, reqHeaders>>

\* (mutant of startFailed: the listener is started after a failed launch)
startFailedListens == "listening"

\* startServer's catch: process.exit(1)
startFailed == "exit1"

\* startServer: initializeBrowser returns and app.listen is called
StartServerListens ==
  /\ server = "starting"
  /\ InitializeBrowserDone
  /\ server' = "listening"
  /\ UNCHANGED <<openPages, activePagesCount, totalRequestsProcessed, totalRequests,
                 handlers, probes, lastResponse>>
  /\ UNCHANGED <<request, renderVars, statsVars, healthStatus, apiKey, xTotalProcessed, reqHeaders>>

\* startServer: initializeBrowser throws (puppeteer.launch has failed)
StartServerFails ==
  /\ server = "starting"
  /\ server' = startFailed
  /\ UNCHANGED <<serviceVars, request, renderVars, statsVars, healthStatus, apiKey, xTotalProcessed, reqHeaders>>

\* the continuations of the /screenshot handler
Handler ==
  \/ HandlerLaunchReturns
  \/ HandlerLaunchThrows
  \/ \E b \in Insts : NewPageReturns(b)
  \/ \E b \in Insts : NewPageThrows(b)
  \/ \E b \in Insts : RenderReturns(b)
  \/ \E b \in Insts : RenderThrows(b)
  \/ \E b \in Insts : ScreenshotReturns(b)
  \/ \E b \in Insts : ScreenshotThrows(b)
  \/ \E b \in Insts : PageCloseReturns(b)
  \/ \E b \in Insts : PageCloseThrows(b)

\* the health-probe callback and its continuations
Probe ==
  \/ HealthTick
  \/ \E b \in Insts : PagesReturns(b)
  \/ \E b \in Insts : PagesThrows(b)
  \/ \E b \in Insts : BrowserCloseReturns(b)
  \/ \E b \in Insts : BrowserCloseThrows(b)
  \/ ProbeLaunchReturns
  \/ ProbeLaunchThrows

Engine == \E b \in Insts : Disconnect(b)

\* the full system: requests, health probe and engine
Next == PostScreenshot(MaxPoolRequests) \/ Handler \/ Probe \/ Engine

Spec == Init /\ [][Next]_vars

\* requests and engine alone, for the claims about admission, with more
\* requests: the health probe reads and writes none of activePagesCount and
\* the handlers' positions, and every engine call of a handler can already
\* throw at any time
NextAdmission == PostScreenshot(MaxRequests) \/ Handler \/ Engine

SpecAdmission == Init /\ [][NextAdmission]_vars

\* every engine call that a handler awaits (launch, newPage, the calls of the
\* rendering, screenshot, close) returns or throws
HandlerFairness ==
  /\ WF_vars(HandlerLaunchReturns \/ HandlerLaunchThrows)
  /\ WF_vars(\E b \in Insts : NewPageReturns(b) \/ NewPageThrows(b))
  /\ WF_vars(\E b \in Insts : RenderReturns(b) \/ RenderThrows(b))
  /\ WF_vars(\E b \in Insts : ScreenshotReturns(b) \/ ScreenshotThrows(b))
  /\ WF_vars(\E b \in Insts : PageCloseReturns(b) \/ PageCloseThrows(b))

\* the full system when the engine calls of the handlers return or throw
SpecTermination == Init /\ [][Next]_vars /\ HandlerFairness

\* the scheduling of the health probe: setInterval keeps firing the
\* registered timers, every engine call that a callback awaits returns or
\* throws, and a launch that is tried again and again succeeds in the end
ProbeFairness ==
  /\ WF_vars(HealthTick)
  /\ WF_vars(\E b \in Insts : PagesReturns(b) \/ PagesThrows(b))
  /\ WF_vars(\E b \in Insts : BrowserCloseReturns(b) \/ BrowserCloseThrows(b))
  /\ WF_vars(ProbeLaunchReturns \/ ProbeLaunchThrows)
  /\ SF_vars(ProbeLaunchReturns)

\* the full system under the scheduling of the health probe
SpecRecovery == Init /\ [][Next]_vars /\ ProbeFairness

\* the values of config.security.apiKey: none, 'disabled' and a key
ApiKeys == {"", "disabled", "secret"}

\* the key headers of the requests
Headers ==
  [xApiKey : {Undef, Str(<<"secret">>), Str(<<"wrong">>)},
   authorization : {Undef, Str(<<"Bearer ">>), Str(<<"Bearer ", "secret">>),
                    Str(<<"Bearer ", "wrong">>), Str(<<"secret">>)}]

InitAuth == InitConfigured(ApiKeys)

NextAuth == PostScreenshotWith(MaxPoolRequests, Headers) \/ Handler \/ Engine

\* requests with and without keys, under each configuration of the API key
SpecAuth == InitAuth /\ [][NextAuth]_vars

\* the full system with the requests to /health
NextHealth == GetHealth(MaxPoolRequests) \/ Next

SpecHealth == Init /\ [][NextHealth]_vars

\* the process when startServer is called: no browser, no timer
InitStartup ==
  /\ browser = 0
  /\ instState = [b \in Insts |-> "unborn"]
  /\ openPages = [b \in Insts |-> 0]
  /\ timers = 0
  /\ activePagesCount = 0
  /\ totalRequestsProcessed = 0
  /\ totalRequests = 0
  /\ handlers = [h \in HandlerStates |-> 0]
  /\ probes = [h \in ProbeStates |-> 0]
  /\ lastResponse = NoResponse
  /\ request = NoRequest
  /\ stage = "idle"
  /\ detectedMode = "none"
  /\ elements = <<>>
  /\ contentBounds = Null
  /\ clipRegion = Null
  /\ images = <<>>
  /\ fonts = "none"
  /\ elapsed = 0
  /\ imageWait = "none"
  /\ screenshotOptions = NoOptions
  /\ contentType = Undef
  /\ successfulRequests = 0
  /\ failedRequests = 0
  /\ totalProcessingTime = 0
  /\ processingTime = 0
  /\ healthStatus = "none"
  /\ server = "starting"
  /\ apiKey = defaultApiKey
  /\ xTotalProcessed = 0
  /\ reqHeaders = NoHeaders
  /\ additionalConcurrencyWait = 0
  /\ delay = 0

\* the served counter starts at 0 and stays below restartThreshold in the
\* MaxPoolRequests requests of a behaviour: the health probe has no restart
\* to make
NextStartup ==
  \/ StartServerListens
  \/ StartServerFails
  \/ PostScreenshot(MaxPoolRequests)
  \/ GetHealth(MaxPoolRequests)
  \/ Handler
  \/ HealthTick
  \/ \E b \in Insts : PagesReturns(b)
  \/ \E b \in Insts : PagesThrows(b)
  \/ ProbeLaunchReturns
  \/ ProbeLaunchThrows
  \/ Engine

\* the process from startServer on
SpecStartup == InitStartup /\ [][NextStartup]_vars

(***************************************************************************)
(* One request followed through the computations of its handler: the       *)
(* validation, the mode detection and the smart crop. The service around   *)
(* it is quiescent.                                                        *)
(***************************************************************************)
\* tokens of an htmlContent
MaxTokens == 3
\* elements of the document that page.evaluate inspects
MaxElements == 2

\* config.screenshot
defaultWidth == 1280
defaultHeight == 720
disableSmartCropInFastMode == TRUE
smartCropEnabled == TRUE
minContentSize == 50
padding == 10
maxPadding == 50
maxElementsToCheck == 100
skipComplexElements == TRUE

\* the `Infinity` that minX and minY start from
Infinity == 1000000

Min(a, b) == IF a < b THEN a ELSE b
Max(a, b) == IF a > b THEN a ELSE b

\* the tokens an htmlContent is made of
HtmlTokens ==
  { "<div style='width:100px;height:50px;background:red'></div>",
    "<img src=a>",
    "<IMG>",
    "<p style='background-image : url(b)'>",
    "<img style='background-image:url(c)'>" }

\* the tokens in which /<img[^>]*>/gi has a match (one match each)
ImgTags == {"<img src=a>", "<IMG>", "<img style='background-image:url(c)'>"}

\* the tokens in which /background-image\s*:\s*url/gi has a match (one each)
BackgroundImages ==
  {"<p style='background-image : url(b)'>", "<img style='background-image:url(c)'>"}

\* (htmlContent.match(re) || []).length
MatchCount(htmlContent, matching) ==
  Cardinality({i \in 1..Len(htmlContent) : htmlContent[i] \in matching})

\* (mutant of detectPerformanceMode: the background images are not counted)
detectPerformanceModeByTags(htmlContent) ==
  LET totalImages == MatchCount(htmlContent, ImgTags)
  IN  IF totalImages = 0 THEN "ultrafast"
      ELSE IF totalImages <= 2 THEN "fast"
      ELSE "standard"

detectPerformanceMode(htmlContent) ==
  LET imgCount == MatchCount(htmlContent, ImgTags)
      backgroundImages == MatchCount(htmlContent, BackgroundImages)
      totalImages == imgCount + backgroundImages
  IN  IF totalImages = 0 THEN "ultrafast"
      ELSE IF totalImages <= 2 THEN "fast"
      ELSE "standard"

\* all the strings of at most n tokens
Strings(n) == UNION {[1..k -> HtmlTokens] : k \in 0..n}

\* the handler's `width` and `height`: the defaults replace undefined only
Width(body) == IF body.width.t = "undefined" THEN defaultWidth ELSE body.width.n
Height(body) == IF body.height.t = "undefined" THEN defaultHeight ELSE body.height.n

\* the initial clipRegion: the whole viewport
FullViewport(body) == [x |-> 0, y |-> 0, width |-> Width(body), height |-> Height(body)]

\* the spans of bounding rectangles on the two axes, as <<start, end>>
XSpans == {<<0, 0>>, <<150, 250>>, <<350, 400>>, <<-20, 10>>, <<100, 130>>, <<0, 400>>}
YSpans == {<<0, 0>>, <<125, 175>>, <<280, 330>>, <<0, 300>>}

\* an element as page.evaluate sees it: getBoundingClientRect(), the
\* computed style, children.length and tagName
Element(xs, ys, display, visibility, children, tagName) ==
  [left |-> xs[1], right |-> xs[2], top |-> ys[1], bottom |-> ys[2],
   display |-> display, visibility |-> visibility, children |-> children,
   tagName |-> tagName]

\* the elements a document is made of
Elements ==
  {Element(xs, ys, "block", v, 0, "DIV") : xs \in XSpans, ys \in YSpans, v \in {"visible", "hidden"}}
  \cup {Element(<<0, 0>>, <<0, 0>>, "none", "visible", 0, "DIV"),
        Element(<<0, 400>>, <<0, 300>>, "block", "visible", 11, "BODY"),
        Element(<<150, 250>>, <<125, 175>>, "block", "visible", 0, "SVG")}

\* the documents: document.querySelectorAll('*') as a list
Documents == UNION {[1..k -> Elements] : k \in 0..MaxElements}

\* the element is neither skipped as invisible nor skipped as complex
Qualifies(e) ==
  /\ ~(e.right - e.left = 0 \/ e.bottom - e.top = 0
       \/ e.display = "none" \/ e.visibility = "hidden")
  /\ ~(skipComplexElements /\ (e.children > 10 \/ e.tagName = "SVG"))

\* the loop over the elements: acc holds minX, minY, maxX, maxY, hasContent
RECURSIVE Accumulate(_, _, _)
Accumulate(els, i, acc) ==
  IF i > Len(els) THEN acc
  ELSE IF ~Qualifies(els[i]) THEN Accumulate(els, i + 1, acc)
  ELSE Accumulate(els, i + 1,
         [minX |-> IF els[i].left < acc.minX THEN els[i].left ELSE acc.minX,
          minY |-> IF els[i].top < acc.minY THEN els[i].top ELSE acc.minY,
          maxX |-> IF els[i].right > acc.maxX THEN els[i].right ELSE acc.maxX,
          maxY |-> IF els[i].bottom > acc.maxY THEN els[i].bottom ELSE acc.maxY,
          hasContent |-> TRUE])

\* (mutant of cropPadding: the box is expanded by half the padding)
cropPaddingHalved == Min(padding, maxPadding) \div 2

\* `const padding = Math.min(cropConfig.padding, cropConfig.maxPadding)`
cropPadding == Min(padding, maxPadding)

\* the function given to page.evaluate, on a document and a window
evaluateContentBounds(document, innerWidth, innerHeight) ==
  LET els == SubSeq(document, 1, Min(Len(document), maxElementsToCheck))
      acc == Accumulate(els, 1, [minX |-> Infinity, minY |-> Infinity, maxX |-> 0,
                                 maxY |-> 0, hasContent |-> FALSE])
  IN  IF ~acc.hasContent \/ acc.minX = Infinity
        THEN Null
        ELSE [x |-> Max(0, acc.minX - cropPadding),
              y |-> Max(0, acc.minY - cropPadding),
              width |-> Min(innerWidth, acc.maxX - acc.minX + cropPadding * 2),
              height |-> Min(innerHeight, acc.maxY - acc.minY + cropPadding * 2)]

\* (mutant of shouldSkipSmartCrop: the fast mode is not looked at)
shouldSkipSmartCropUltraOnly == detectedMode = "ultrafast"

shouldSkipSmartCrop ==
  detectedMode = "ultrafast" \/ (detectedMode = "fast" /\ disableSmartCropInFastMode)

\* the condition of the `if` around the smart crop
SmartCropRuns ==
  /\ ~shouldSkipSmartCrop
  /\ request.smartCrop # Bool(FALSE)
  /\ smartCropEnabled

\* config.screenshot.defaultFormat
defaultFormat == "png"

\* options.imageWaitTime || 3000: the budget given to waitForAllImages
defaultImageWaitTime == 3000

\* config.puppeteer.protocolTimeout: the time after which a page.evaluate
\* that has not returned throws
protocolTimeout == 30000

\* seconds as milliseconds
Ms(seconds) == seconds * 1000

\* the handler's `format`: the default replaces undefined only
Format(body) == IF body.format.t = "undefined" THEN Str(<<defaultFormat>>) ELSE body.format

\* (mutant of SupportsQuality: the format is not looked at)
SupportsQualityAny(format) == format.t = "string"

\* `format === 'jpeg' || format === 'webp'`
SupportsQuality(format) == format = Str(<<"jpeg">>) \/ format = Str(<<"webp">>)

\* screenshotOptions as the handler builds it (an absent quality is undefined)
ScreenshotOptions(body, clip) ==
  [type |-> Format(body),
   clip |-> clip,
   quality |-> IF SupportsQuality(Format(body)) /\ Truthy(body.quality)
                 THEN body.quality ELSE Undef]

\* the images of a document: an <img> element or an element with a
\* background image, which is loading, loaded or errored
Image(bg, state) == [bg |-> bg, state |-> state]

\* images of a document
MaxImages == 2

\* the image lists of the documents
ImageLists ==
  UNION {[1..k -> {Image(bg, st) : bg \in BOOLEAN, st \in {"loading", "loaded", "errored"}}]
           : k \in 0..MaxImages}

\* the document without images
NoImages == {<<>>}

\* (mutant of Settled: only a load resolves the promise of an image)
SettledOnLoadOnly(image) == image.state = "loaded"

\* waitForAllImages: the promise of the image is resolved (img.complete, or
\* onload or onerror has been called)
Settled(image) == image.state \in {"loaded", "errored"}

\* the promise that page.evaluate awaits in waitForAllImages is resolved
AllSettled == \A i \in 1..Len(images) : Settled(images[i])

\* (mutant of FontWaitCatch: the error of the font wait is rethrown)
FontWaitRethrow(next) == "failed"

\* the catch around the font wait: the handler goes on
FontWaitCatch(next) == next

\* the handler's mode flags
ultraFastMode == detectedMode = "ultrafast"

fastMode == detectedMode = "fast"

\* (mutant of standardMode: every mode but ultrafast counts as standard)
standardModeNotUltraFast == detectedMode # "ultrafast"

standardMode == detectedMode = "standard"

\* what the handler awaits after the font wait: the image detection
\* (ultrafast, fast) or waitForAllImages (standard)
AfterFontWait ==
  IF ultraFastMode \/ fastMode THEN "imageDetection"
  ELSE IF standardMode THEN "waitForAllImages"
  ELSE "delay"

\* config.screenshot.performance.ultraFastWaitTime
ultraFastWaitTime == 3000

\* `if (activePagesCount >= 3) additionalConcurrencyWait = activePagesCount * 300`
concurrencyWait(active) == IF active >= 3 THEN active * 300 ELSE 0

\* (mutant of ultraFastDynamicWaitTime: the cap is forgotten)
ultraFastDynamicWaitTimeUncapped(n) == ultraFastWaitTime + n * 200

\* ultrafast: dynamicWaitTime for n images
ultraFastDynamicWaitTime(n) == Min(ultraFastWaitTime + n * 200, 8000)

\* fast: dynamicWaitTime for n images
fastDynamicWaitTime(n) == Min(300 + n * 100, 2000)

\* the handler validates the body: it returns the 400, or goes on (a page is
\* opened and configured)
ValidateRequest ==
  /\ stage = "validate"
  /\ IF validateScreenshotParams(request) # {}
       THEN /\ stage' = "rejected"
            /\ lastResponse' = InvalidParameters(validateScreenshotParams(request))
       ELSE /\ stage' = "setContent"
            /\ UNCHANGED lastResponse
  /\ UNCHANGED <<browser, instState, openPages, timers, activePagesCount,
                 totalRequestsProcessed, totalRequests, handlers, probes>>
  /\ UNCHANGED <<request, detectedMode, elements, contentBounds, clipRegion>>
  /\ UNCHANGED <<images, fonts, elapsed, imageWait, screenshotOptions, contentType>>
  /\ UNCHANGED <<processVars, settleVars>>

\* the mode is detected from the htmlContent and page.setContent is awaited
SelectMode ==
  /\ stage = "setContent"
  /\ detectedMode' = detectPerformanceMode(request.htmlContent.s)
  /\ additionalConcurrencyWait' = concurrencyWait(activePagesCount)
  /\ stage' = "content"
  /\ UNCHANGED <<serviceVars, request, elements, contentBounds, clipRegion>>
  /\ UNCHANGED <<images, fonts, elapsed, imageWait, screenshotOptions, contentType>>
  /\ UNCHANGED <<processVars, delay>>

\* page.setContent returns: the document has one of the image lists of
\* `lists`; the font wait is awaited
SetContentReturns(lists) ==
  /\ stage = "content"
  /\ images' \in lists
  /\ stage' = "fonts"
  /\ UNCHANGED <<serviceVars, request, detectedMode, elements, contentBounds, clipRegion>>
  /\ UNCHANGED <<fonts, elapsed, imageWait, screenshotOptions, contentType>>
  /\ UNCHANGED <<processVars, settleVars>>

\* page.setContent throws, as it does when the load event has not fired
\* within its timeout: the handler's catch answers 500
SetContentThrows ==
  /\ stage = "content"
  /\ stage' = "failed"
  /\ lastResponse' = Response(500)
  /\ UNCHANGED <<browser, instState, openPages, timers, activePagesCount,
                 totalRequestsProcessed, totalRequests, handlers, probes>>
  /\ UNCHANGED <<request, detectedMode, elements, contentBounds, clipRegion>>
  /\ UNCHANGED <<images, fonts, elapsed, imageWait, screenshotOptions, contentType>>
  /\ UNCHANGED <<processVars, settleVars>>

\* document.fonts.ready wins the race
FontsReady ==
  /\ stage = "fonts"
  /\ fonts' = "ready"
  /\ stage' = AfterFontWait
  /\ UNCHANGED <<serviceVars, request, detectedMode, elements, contentBounds, clipRegion>>
  /\ UNCHANGED <<images, elapsed, imageWait, screenshotOptions, contentType>>
  /\ UNCHANGED <<processVars, settleVars>>

\* the font timeout wins the race, or page.evaluate throws
FontsTimeout ==
  /\ stage = "fonts"
  /\ fonts' = "timeout"
  /\ stage' = FontWaitCatch(AfterFontWait)
  /\ UNCHANGED <<serviceVars, request, detectedMode, elements, contentBounds, clipRegion>>
  /\ UNCHANGED <<images, elapsed, imageWait, screenshotOptions, contentType>>
  /\ UNCHANGED <<processVars, settleVars>>

\* ultrafast: `needsWaiting` of the image detection
needsWaiting ==
  \/ \E i \in 1..Len(images) : ~images[i].bg /\ images[i].state = "loading"
  \/ \E i \in 1..Len(images) : images[i].bg

\* ultrafast and fast: the page.evaluate of the image detection returns and
\* the handler sleeps, for a time that grows with the number of images when
\* images need waiting (ultrafast) or are present (fast), for a minimal time
\* otherwise
ImageDetectionReturns ==
  /\ stage = "imageDetection"
  /\ imageWait' = IF ultraFastMode
                    THEN (IF needsWaiting THEN "fixedDelay" ELSE "minimalDelay")
                    ELSE (IF images # <<>> THEN "fixedDelay" ELSE "minimalDelay")
  /\ delay' = IF ultraFastMode
                THEN (IF needsWaiting
                        THEN ultraFastDynamicWaitTime(Len(images)) + additionalConcurrencyWait
                        ELSE 200)
                ELSE (IF images # <<>> THEN fastDynamicWaitTime(Len(images)) ELSE 0)
  /\ stage' = "delay"
  /\ UNCHANGED <<serviceVars, request, detectedMode, elements, contentBounds, clipRegion>>
  /\ UNCHANGED <<images, fonts, elapsed, screenshotOptions, contentType>>
  /\ UNCHANGED <<processVars, additionalConcurrencyWait>>

\* ultrafast and fast: the page.evaluate of the image detection throws
ImageDetectionThrows ==
  /\ stage = "imageDetection"
  /\ stage' = "failed"
  /\ lastResponse' = Response(500)
  /\ UNCHANGED <<browser, instState, openPages, timers, activePagesCount,
                 totalRequestsProcessed, totalRequests, handlers, probes>>
  /\ UNCHANGED <<request, detectedMode, elements, contentBounds, clipRegion>>
  /\ UNCHANGED <<images, fonts, elapsed, imageWait, screenshotOptions, contentType>>
  /\ UNCHANGED <<processVars, settleVars>>

\* an image that is loading fires its load event
ImageLoads(i) ==
  /\ stage = "waitForAllImages"
  /\ i \in 1..Len(images)
  /\ images[i].state = "loading"
  /\ images' = [images EXCEPT ![i].state = "loaded"]
  /\ UNCHANGED <<serviceVars, request, stage, detectedMode, elements, contentBounds, clipRegion>>
  /\ UNCHANGED <<fonts, elapsed, imageWait, screenshotOptions, contentType>>
  /\ UNCHANGED <<processVars, settleVars>>

\* an image that is loading fires its error event
ImageErrors(i) ==
  /\ stage = "waitForAllImages"
  /\ i \in 1..Len(images)
  /\ images[i].state = "loading"
  /\ images' = [images EXCEPT ![i].state = "errored"]
  /\ UNCHANGED <<serviceVars, request, stage, detectedMode, elements, contentBounds, clipRegion>>
  /\ UNCHANGED <<fonts, elapsed, imageWait, screenshotOptions, contentType>>
  /\ UNCHANGED <<processVars, settleVars>>

\* standard: a second passes while page.evaluate awaits the promises of the
\* images in waitForAllImages (the `timeout` parameter is not used; the
\* protocol timeout of the engine bounds the call)
WaitTick ==
  /\ stage = "waitForAllImages"
  /\ ~AllSettled
  /\ Ms(elapsed) < protocolTimeout
  /\ elapsed' = elapsed + 1
  /\ UNCHANGED <<serviceVars, request, stage, detectedMode, elements, contentBounds, clipRegion>>
  /\ UNCHANGED <<images, fonts, imageWait, screenshotOptions, contentType>>
  /\ UNCHANGED <<processVars, settleVars>>

\* standard: waitForAllImages returns its statistics; the handler sleeps
WaitForAllImagesReturns ==
  /\ stage = "waitForAllImages"
  /\ AllSettled
  /\ imageWait' = "waitForAllImages"
  /\ stage' = "delay"
  /\ UNCHANGED <<serviceVars, request, detectedMode, elements, contentBounds, clipRegion>>
  /\ UNCHANGED <<images, fonts, elapsed, screenshotOptions, contentType>>
  /\ UNCHANGED <<processVars, settleVars>>

\* standard: page.evaluate throws in waitForAllImages (at the protocol
\* timeout at the latest), the catch returns {success: false}; the handler
\* sleeps
WaitForAllImagesFails ==
  /\ stage = "waitForAllImages"
  /\ ~AllSettled
  /\ imageWait' = "waitForAllImages"
  /\ stage' = "delay"
  /\ UNCHANGED <<serviceVars, request, detectedMode, elements, contentBounds, clipRegion>>
  /\ UNCHANGED <<images, fonts, elapsed, screenshotOptions, contentType>>
  /\ UNCHANGED <<processVars, settleVars>>

\* the sleeps (and, in standard mode, the render check) are over
DelayElapses ==
  /\ stage = "delay"
  /\ stage' = "smartCrop"
  /\ UNCHANGED <<serviceVars, request, detectedMode, elements, contentBounds, clipRegion>>
  /\ UNCHANGED <<images, fonts, elapsed, imageWait, screenshotOptions, contentType>>
  /\ UNCHANGED <<processVars, settleVars>>

\* clipRegion is initialised, the smart crop is skipped and page.screenshot
\* is awaited
SmartCropSkipped ==
  /\ stage = "smartCrop"
  /\ ~SmartCropRuns
  /\ clipRegion' = FullViewport(request)
  /\ screenshotOptions' = ScreenshotOptions(request, clipRegion')
  /\ stage' = "screenshot"
  /\ UNCHANGED <<serviceVars, request, detectedMode, elements, contentBounds>>
  /\ UNCHANGED <<images, fonts, elapsed, imageWait, contentType>>
  /\ UNCHANGED <<processVars, settleVars>>

\* clipRegion is initialised and page.evaluate is awaited
SmartCropStarts ==
  /\ stage = "smartCrop"
  /\ SmartCropRuns
  /\ clipRegion' = FullViewport(request)
  /\ stage' = "evaluate"
  /\ UNCHANGED <<serviceVars, request, detectedMode, elements, contentBounds>>
  /\ UNCHANGED <<images, fonts, elapsed, imageWait, screenshotOptions, contentType>>
  /\ UNCHANGED <<processVars, settleVars>>

\* page.evaluate returns the bounds of the document that the engine has laid
\* out; they replace clipRegion when they pass the minimum size test;
\* page.screenshot is awaited
EvaluateReturns ==
  /\ stage = "evaluate"
  /\ \E document \in Documents :
       LET bounds == evaluateContentBounds(document, Width(request), Height(request))
       IN  /\ elements' = document
           /\ contentBounds' = bounds
           /\ clipRegion' = IF /\ bounds # Null
                               /\ bounds.width > minContentSize
                               /\ bounds.height > minContentSize
                              THEN bounds ELSE clipRegion
  /\ screenshotOptions' = ScreenshotOptions(request, clipRegion')
  /\ stage' = "screenshot"
  /\ UNCHANGED <<serviceVars, request, detectedMode>>
  /\ UNCHANGED <<images, fonts, elapsed, imageWait, contentType>>
  /\ UNCHANGED <<processVars, settleVars>>

\* page.evaluate throws: the catch around the smart crop swallows the error;
\* page.screenshot is awaited
EvaluateThrows ==
  /\ stage = "evaluate"
  /\ screenshotOptions' = ScreenshotOptions(request, clipRegion)
  /\ stage' = "screenshot"
  /\ UNCHANGED <<serviceVars, request, detectedMode, elements, contentBounds, clipRegion>>
  /\ UNCHANGED <<images, fonts, elapsed, imageWait, contentType>>
  /\ UNCHANGED <<processVars, settleVars>>

\* page.screenshot returns the image: it is sent with its Content-Type
CaptureReturns ==
  /\ stage = "screenshot"
  /\ contentType' = Str(<<"image/">> \o screenshotOptions.type.s)
  /\ lastResponse' = Response(200)
  /\ stage' = "sent"
  /\ UNCHANGED <<browser, instState, openPages, timers, activePagesCount,
                 totalRequestsProcessed, totalRequests, handlers, probes>>
  /\ UNCHANGED <<request, detectedMode, elements, contentBounds, clipRegion>>
  /\ UNCHANGED <<images, fonts, elapsed, imageWait, screenshotOptions>>
  /\ UNCHANGED <<processVars, settleVars>>

\* page.screenshot throws: the handler's catch answers 500
CaptureThrows ==
  /\ stage = "screenshot"
  /\ lastResponse' = Response(500)
  /\ stage' = "failed"
  /\ UNCHANGED <<browser, instState, openPages, timers, activePagesCount,
                 totalRequestsProcessed, totalRequests, handlers, probes>>
  /\ UNCHANGED <<request, detectedMode, elements, contentBounds, clipRegion>>
  /\ UNCHANGED <<images, fonts, elapsed, imageWait, screenshotOptions, contentType>>
  /\ UNCHANGED <<processVars, settleVars>>

\* a service with a launched browser and one request about to be validated,
\* while activePagesCount has one of the values of `actives`
InitFollowedAmong(bodies, actives) ==
  /\ browser = 1
  /\ instState = [b \in Insts |-> IF b = 1 THEN "live" ELSE "unborn"]
  /\ openPages = [b \in Insts |-> 0]
  /\ timers = 1
  /\ activePagesCount \in actives
  /\ totalRequestsProcessed = 0
  /\ totalRequests = 0
  /\ handlers = [h \in HandlerStates |-> 0]
  /\ probes = [h \in ProbeStates |-> 0]
  /\ lastResponse = NoResponse
  /\ request \in bodies
  /\ stage = "validate"
  /\ detectedMode = "none"
  /\ elements = <<>>
  /\ contentBounds = Null
  /\ clipRegion = Null
  /\ images = <<>>
  /\ fonts = "none"
  /\ elapsed = 0
  /\ imageWait = "none"
  /\ screenshotOptions = NoOptions
  /\ contentType = Undef
  /\ successfulRequests = 0
  /\ failedRequests = 0
  /\ totalProcessingTime = 0
  /\ processingTime = 0
  /\ healthStatus = "none"
  /\ server = "listening"
  /\ apiKey = defaultApiKey
  /\ xTotalProcessed = 0
  /\ reqHeaders = NoHeaders
  /\ additionalConcurrencyWait = 0
  /\ delay = 0

\* a quiescent service and one request about to be validated
InitFollowed(bodies) == InitFollowedAmong(bodies, {0})

\* the bodies of the requests whose validation and mode are followed
RequestBodies ==
  [htmlContent : {Undef, Num(1)} \cup {Str(x) : x \in Strings(MaxTokens)},
   width : {Undef, Num(0), Num(400), Num(maxWidth), Num(maxWidth + 1), Str(<<"400">>)},
   height : {Undef, Num(0), Num(300), Num(maxHeight + 1)},
   format : {Undef, Str(<<"png">>), Str(<<"gif">>)},
   smartCrop : {Undef},
   quality : {Undef}]

InitRequest == InitFollowed(RequestBodies)

NextRequest == ValidateRequest \/ SelectMode

\* the validation and the mode detection, on every body of RequestBodies
SpecRequest == InitRequest /\ [][NextRequest]_vars

\* the bodies of the requests whose smart crop is followed
CropBodies ==
  [htmlContent : {Undef,
                  Str(<<"<div style='width:100px;height:50px;background:red'></div>">>),
                  Str(<<"<img src=a>">>),
                  Str(<<"<img src=a>", "<IMG>", "<p style='background-image : url(b)'>">>)},
   width : {Undef, Num(400)},
   height : {Undef, Num(300)},
   format : {Undef},
   smartCrop : {Undef, Bool(TRUE), Bool(FALSE)},
   quality : {Undef}]

InitCrop == InitFollowed(CropBodies)

NextCrop ==
  \/ ValidateRequest
  \/ SelectMode
  \/ SetContentReturns(NoImages)
  \/ FontsReady
  \/ ImageDetectionReturns
  \/ WaitForAllImagesReturns
  \/ DelayElapses
  \/ SmartCropSkipped
  \/ SmartCropStarts
  \/ EvaluateReturns
  \/ EvaluateThrows

\* the smart crop, on every document of Documents (the documents have no
\* images and no call before the crop fails)
SpecCrop == InitCrop /\ [][NextCrop]_vars

\* the next request arrives when the mode of the request before it has been
\* selected or that request has been rejected: performanceMiddleware counts
\* it and its handler starts; what the handler before it computed is still
\* in the state
NextRequestArrives(bodies) ==
  /\ stage \in {"rejected", "content"}
  /\ totalRequests < MaxPoolRequests
  /\ totalRequests' = totalRequests + 1
  /\ request' \in bodies
  /\ stage' = "validate"
  /\ UNCHANGED <<browser, instState, openPages, timers, activePagesCount,
                 totalRequestsProcessed, handlers, probes, lastResponse>>
  /\ UNCHANGED <<detectedMode, elements, contentBounds, clipRegion>>
  /\ UNCHANGED <<images, fonts, elapsed, imageWait, screenshotOptions, contentType>>
  /\ UNCHANGED <<processVars, settleVars>>

\* the bodies of the requests whose modes are followed
ModeBodies ==
  [htmlContent : {Undef} \cup {Str(x) : x \in Strings(MaxTokens)},
   width : {Undef},
   height : {Undef},
   format : {Undef},
   smartCrop : {Undef},
   quality : {Undef}]

InitModes == InitFollowed(ModeBodies)

NextModes == ValidateRequest \/ SelectMode \/ NextRequestArrives(ModeBodies)

\* the mode selection of requests that follow each other
SpecModes == InitModes /\ [][NextModes]_vars

\* images of a document whose settle delay is followed
MaxDetected == 30

\* documents of up to MaxDetected images of one kind
DelayImageLists ==
  {[i \in 1..k |-> Image(bg, st)] :
     k \in 0..MaxDetected, bg \in BOOLEAN, st \in {"loading", "loaded"}}

\* the bodies of the requests whose settle delay is followed: an ultrafast
\* and a fast one
DelayBodies ==
  [htmlContent : {Str(<<"<div style='width:100px;height:50px;background:red'></div>">>),
                  Str(<<"<img src=a>">>)},
   width : {Undef},
   height : {Undef},
   format : {Undef},
   smartCrop : {Undef},
   quality : {Undef}]

\* the followed request is one of 1 to maxConcurrentPages admitted requests
InitDelay == InitFollowedAmong(DelayBodies, 1..maxConcurrentPages)

NextDelay ==
  \/ ValidateRequest
  \/ SelectMode
  \/ SetContentReturns(DelayImageLists)
  \/ FontsReady
  \/ ImageDetectionReturns
  \/ DelayElapses

\* the sleep after the image detection, on documents of up to MaxDetected
\* images
SpecDelay == InitDelay /\ [][NextDelay]_vars

\* the bodies of the requests whose waits are followed: one for each mode
WaitBodies ==
  [htmlContent : {Undef,
                  Str(<<"<div style='width:100px;height:50px;background:red'></div>">>),
                  Str(<<"<img src=a>">>),
                  Str(<<"<img src=a>", "<IMG>", "<p style='background-image : url(b)'>">>)},
   width : {Undef},
   height : {Undef},
   format : {Undef},
   smartCrop : {Undef},
   quality : {Undef}]

InitWait == InitFollowed(WaitBodies)

NextWait ==
  \/ ValidateRequest
  \/ SelectMode
  \/ SetContentReturns(ImageLists)
  \/ SetContentThrows
  \/ FontsReady
  \/ FontsTimeout
  \/ ImageDetectionReturns
  \/ ImageDetectionThrows
  \/ \E i \in 1..MaxImages : ImageLoads(i)
  \/ \E i \in 1..MaxImages : ImageErrors(i)
  \/ WaitTick
  \/ WaitForAllImagesReturns
  \/ WaitForAllImagesFails
  \/ DelayElapses

\* the content load and the waits before the smart crop, on every image list
\* of ImageLists
SpecWait == InitWait /\ [][NextWait]_vars

\* the bodies of the requests whose capture is followed
CaptureBodies ==
  [htmlContent : {Undef,
                  Str(<<"<div style='width:100px;height:50px;background:red'></div>">>)},
   width : {Undef},
   height : {Undef},
   format : {Undef, Str(<<"png">>), Str(<<"jpeg">>), Str(<<"webp">>), Str(<<"gif">>)},
   smartCrop : {Undef},
   quality : {Undef, Num(1), Num(50), Num(100)}]

InitCapture == InitFollowed(CaptureBodies)

NextCapture ==
  \/ ValidateRequest
  \/ SelectMode
  \/ SetContentReturns(NoImages)
  \/ FontsReady
  \/ ImageDetectionReturns
  \/ DelayElapses
  \/ SmartCropSkipped
  \/ CaptureReturns
  \/ CaptureThrows

\* the capture and the response, on every format and quality of
\* CaptureBodies (qualities of the documented range 1-100)
SpecCapture == InitCapture /\ [][NextCapture]_vars

(***************************************************************************)
(* The claims.                                                             *)
(***************************************************************************)
\* the calls a handler awaits between its `activePagesCount++` and finally
InFlightCalls == {"launch", "newPage", "render", "screenshot"}

\* handlers that have entered the try block and not yet reached finally
InFlight == HandlersAt(InFlightCalls)

\* handlers that have not returned yet (those in finally included)
Running == HandlersAt(InFlightCalls \cup {"close"})

\* handlers whose `page` is set to a page of instance b
PageHolders(b) ==
  handlers[<<"render", b>>] + handlers[<<"screenshot", b>>] + handlers[<<"close", b>>]

\* a request arrives in this step
Arrival == totalRequests' = totalRequests + 1

\* C1: in every reachable state the admission counter activePagesCount is at
\* most maxConcurrentPages (the check of concurrencyControl and the increment
\* of the handler are one atomic step, PostScreenshot).
C1_CounterBounded == activePagesCount <= maxConcurrentPages

\* C1 witness: the counter has reached the maximum with that many handlers
\* in flight
C1_AtCapacity == activePagesCount = maxConcurrentPages /\ InFlight = maxConcurrentPages

\* C2: a request that arrives while maxConcurrentPages requests are in flight
\* is rejected with 429; a step in which an in-flight request completes
\* leaves activePagesCount below the maximum; and a request that arrives
\* while activePagesCount is below the maximum is admitted (its handler is
\* suspended at its first await, or it is answered 400 by the validation).
C2_RejectAtCapacityAdmitBelow ==
  [][ /\ (Arrival /\ InFlight = maxConcurrentPages)
           => (lastResponse'.status = 429 /\ handlers' = handlers)
      /\ (InFlight' < InFlight) => (activePagesCount' < maxConcurrentPages)
      /\ (Arrival /\ activePagesCount < maxConcurrentPages)
           => (InFlight' = InFlight + 1 \/ lastResponse'.status = 400)
    ]_vars

\* C2 witness: a request has been admitted after one of maxConcurrentPages
\* earlier requests reached finally (which still awaits page.close())
C2_AdmittedAfterCompletion ==
  /\ InFlight = maxConcurrentPages
  /\ HandlersAt({"close"}) >= 1

\* C3: activePagesCount equals the number of handlers that have entered the
\* try block and not yet reached finally, is never negative, and is 0 when
\* no request is in flight.
C3_CounterIsInFlight ==
  /\ activePagesCount = InFlight
  /\ activePagesCount >= 0
  /\ (InFlight = 0 => activePagesCount = 0)

\* C3 witness: two requests have passed finally after a capture or a
\* failure, a third one has been answered 400, and the counter is back at 0
C3_AllReleased ==
  /\ activePagesCount = 0
  /\ HandlersAt({"close"}) >= 2
  /\ lastResponse.status = 400

\* C4: a rejected request changes nothing but the response and the request
\* statistics: activePagesCount, totalRequestsProcessed, the browser handle,
\* the instances and their pages, the suspended handlers and probes and the
\* timers are unchanged, and the 429 carries the current activePagesCount
\* and maxConcurrentPages.
C4_RejectionChangesNothing ==
  [][ (Arrival /\ activePagesCount >= maxConcurrentPages)
        => /\ UNCHANGED <<activePagesCount, totalRequestsProcessed, browser, instState,
                          openPages, timers, handlers, probes>>
           /\ lastResponse' = [status |-> 429, activePagesCount |-> activePagesCount,
                               maxConcurrentPages |-> maxConcurrentPages, details |-> {}]
    ]_vars

\* C4 witness: a 429 has been sent with both figures at the maximum
C4_Rejected ==
  lastResponse = [status |-> 429, activePagesCount |-> maxConcurrentPages,
                  maxConcurrentPages |-> maxConcurrentPages, details |-> {}]

C6_OpenPagesBounded == OpenPageCount <= maxConcurrentPages

\* C7 (as claimed): at most one launch is in flight and at most one browser
\* instance is live at any time.
C7_SingleLaunchSingleInstance ==
  /\ LaunchesInFlight <= 1
  /\ Cardinality({b \in Insts : isConnected(b)}) <= 1

\* C8 (as claimed): a threshold crossing triggers exactly one restart, with
\* one close of the old browser: no two callbacks are in restartBrowser
\* closing the same browser.
C8_ExactlyOneRestart == \A b \in Insts : probes[<<"close", b>>] <= 1

\* C9 (as claimed): whether browser.close() returns or throws, restartBrowser
\* goes on to reset totalRequestsProcessed to 0 and to start the launch of a
\* new browser.
C9_CloseIsBestEffort ==
  [][ \A b \in Insts :
        probes'[<<"close", b>>] < probes[<<"close", b>>]
          => /\ totalRequestsProcessed' = 0
             /\ probes'[<<"launch", 0>>] = probes[<<"launch", 0>>] + 1
    ]_vars

\* C10 (as claimed): a restart does not cancel the requests in flight: no
\* handler is left awaiting a call on a browser that restartBrowser has
\* closed (such a call can only throw, and the handler answers 500).
C10_RestartSparesInFlight ==
  \A b \in Insts :
    instState[b] = "closed"
      => handlers[<<"newPage", b>>] + handlers[<<"render", b>>]
           + handlers[<<"screenshot", b>>] = 0

\* C11: when the launch awaited by a request fails, that request is answered
\* 500 and its slot is released while the handle, the instances and the other
\* handlers stay as they are; and every valid request that is admitted while
\* the browser is missing or disconnected starts a launch of its own.
C11_LaunchFailureIsLocal ==
  [][ /\ (handlers'[<<"launch", 0>>] < handlers[<<"launch", 0>>] /\ instState' = instState)
           => /\ lastResponse'.status = 500
              /\ activePagesCount' = activePagesCount - 1
              /\ Running' = Running - 1
              /\ UNCHANGED <<browser, openPages, timers, probes>>
      /\ (/\ Arrival
          /\ activePagesCount < maxConcurrentPages
          /\ validateScreenshotParams(request') = {}
          /\ (browser = 0 \/ instState[browser] # "live"))
           => handlers'[<<"launch", 0>>] = handlers[<<"launch", 0>>] + 1
    ]_vars

\* C11 witness: a request has been answered 500 without a page, and a later
\* request, the only one in flight, is awaiting a launch of its own
C11_RetryAfterFailedLaunch ==
  /\ lastResponse.status = 500
  /\ handlers[<<"launch", 0>>] = 1
  /\ Running = 1
  /\ activePagesCount = 1
  /\ OpenPageCount = 0
  /\ browser # 0 /\ instState[browser] = "crashed"

C13_ValidationBeforeAdmission ==
  [][ (Arrival /\ validateScreenshotParams(request') # {}) => lastResponse'.status = 400 ]_vars

\* C14 (as claimed): every request that passes the validation, and so has a
\* page opened, has a non-empty string htmlContent, a width and a height
\* that are positive numbers not above maxWidth / maxHeight, and a supported
\* format (the defaults stand for the fields that are absent).
C14_AdmittedRequestsAreWellFormed ==
  stage \in {"setContent", "content"}
    => /\ request.htmlContent.t = "string" /\ request.htmlContent.s # <<>>
       /\ request.width.t \in {"undefined", "number"}
       /\ Width(request) > 0 /\ Width(request) <= maxWidth
       /\ request.height.t \in {"undefined", "number"}
       /\ Height(request) > 0 /\ Height(request) <= maxHeight
       /\ (request.format.t = "undefined" \/ IsSupportedFormat(request.format))

\* the <img> tags plus the background-image:url occurrences of a string,
\* summed token by token
RECURSIVE ImageOccurrences(_)
ImageOccurrences(html) ==
  IF html = <<>> THEN 0
  ELSE (IF Head(html) \in ImgTags THEN 1 ELSE 0)
       + (IF Head(html) \in BackgroundImages THEN 1 ELSE 0)
       + ImageOccurrences(Tail(html))

\* C15: the detected mode is ultrafast when the htmlContent has no <img> tag
\* and no background-image:url, fast when it has 1 or 2 of them, standard
\* when it has 3 or more.
C15_ModeByImageCount ==
  stage = "content"
    => detectedMode =
         (CASE ImageOccurrences(request.htmlContent.s) = 0 -> "ultrafast"
            [] ImageOccurrences(request.htmlContent.s) \in {1, 2} -> "fast"
            [] ImageOccurrences(request.htmlContent.s) >= 3 -> "standard")

\* C15 witness: a content of one token that is both an <img> tag and a
\* background image (2 occurrences) has been classified as fast
C15_FastWithTwoImages ==
  /\ stage = "content"
  /\ request.htmlContent.s = <<"<img style='background-image:url(c)'>">>
  /\ detectedMode = "fast"

\* the request of the end-to-end scenario: one visible 100x50 element, no
\* image, viewport 400x300, smartCrop true
ScenarioRequest ==
  [htmlContent |-> Str(<<"<div style='width:100px;height:50px;background:red'></div>">>),
   width |-> Num(400), height |-> Num(300), format |-> Undef, smartCrop |-> Bool(TRUE),
   quality |-> Undef]

\* C16 (as claimed): for the scenario request the region given to the capture
\* is the content box, 100 + 2 * padding by 50 + 2 * padding, not the
\* viewport.
C16_ScenarioIsCropped ==
  (stage = "screenshot" /\ request = ScenarioRequest)
    => /\ clipRegion.width = 100 + 2 * Min(padding, maxPadding)
       /\ clipRegion.height = 50 + 2 * Min(padding, maxPadding)

\* C17 (as claimed): the region given to page.screenshot lies inside the
\* viewport.
C17_ClipInsideViewport ==
  stage = "screenshot"
    => /\ clipRegion.x >= 0
       /\ clipRegion.y >= 0
       /\ clipRegion.x + clipRegion.width <= Width(request)
       /\ clipRegion.y + clipRegion.height <= Height(request)

\* the elements of the inspected document that are visible and not complex
Qualifying == {i \in 1..Len(elements) : Qualifies(elements[i])}

\* the rectangle r covers the part of element e, expanded by p on each side,
\* that is inside a w by h viewport
Covers(r, e, p, w, h) ==
  LET l == Max(0, e.left - p)
      t == Max(0, e.top - p)
      rt == Min(w, e.right + p)
      b == Min(h, e.bottom + p)
  IN  (l < rt /\ t < b)
        => /\ r.x <= l /\ rt <= r.x + r.width
           /\ r.y <= t /\ b <= r.y + r.height

\* C18: the bounds that page.evaluate returns are null when no element
\* qualifies, and otherwise a rectangle that covers, inside the viewport,
\* every qualifying element expanded by min(padding, maxPadding).
C18_BoundsCoverContent ==
  stage = "screenshot"
    => IF Qualifying = {}
         THEN contentBounds = Null
         ELSE /\ contentBounds # Null
              /\ \A i \in Qualifying :
                   Covers(contentBounds, elements[i], Min(padding, maxPadding),
                          Width(request), Height(request))

\* C18 witness: bounds have been returned for a document of two qualifying
\* elements, one of them partly outside a 400x300 viewport
C18_TwoElementsBounded ==
  /\ stage = "screenshot"
  /\ Width(request) = 400 /\ Height(request) = 300
  /\ Len(elements) = 2
  /\ Qualifying = {1, 2}
  /\ elements[1].left < 0
  /\ elements[2].left = 150
  /\ contentBounds # Null

\* C19 (as claimed): the computed bounds are the capture region exactly when
\* neither their width nor their height is below minContentSize; otherwise
\* the capture region is the whole viewport.
C19_MinContentSize ==
  (stage = "screenshot" /\ contentBounds # Null)
    => IF contentBounds.width >= minContentSize /\ contentBounds.height >= minContentSize
         THEN clipRegion = contentBounds
         ELSE clipRegion = [x |-> 0, y |-> 0, width |-> Width(request),
                            height |-> Height(request)]

\* C20: page.evaluate is awaited only when the mode is not ultrafast and not
\* (fast with disableSmartCropInFastMode), options.smartCrop is not false and
\* smartCrop.enabled is set; the crop step always ends at the capture; and
\* when no bounds were obtained (the step was skipped, threw or returned
\* null) the capture region is {x: 0, y: 0, width, height} of the request.
C20_CropIsOptional ==
  [][ /\ (stage' = "evaluate")
           => /\ detectedMode' # "ultrafast"
              /\ ~(detectedMode' = "fast" /\ disableSmartCropInFastMode)
              /\ request'.smartCrop # Bool(FALSE)
              /\ smartCropEnabled
      /\ (stage \in {"smartCrop", "evaluate"} /\ stage' # stage)
           => stage' \in {"evaluate", "screenshot"}
      /\ (stage' = "screenshot" /\ contentBounds' = Null)
           => clipRegion' = [x |-> 0, y |-> 0, width |-> Width(request'),
                             height |-> Height(request')]
    ]_vars

\* C20 witness: page.evaluate has run on a document of two elements of which
\* none qualifies and returned null, and the whole viewport is captured
C20_NullBoundsFullViewport ==
  /\ stage = "screenshot"
  /\ detectedMode = "standard"
  /\ Len(elements) = 2
  /\ contentBounds = Null
  /\ clipRegion = [x |-> 0, y |-> 0, width |-> Width(request), height |-> Height(request)]

\* C21: a successful response declares Content-Type image/<format>, the
\* requested or default format, which is also the type passed to
\* page.screenshot; a quality is passed exactly when the format is jpeg or
\* webp and the request has a quality, and it is the quality of the request
C21_FormatAndQualityReachCapture ==
  stage = "sent"
    => /\ lastResponse.status = 200
       /\ screenshotOptions.type = Format(request)
       /\ contentType = Str(<<"image/">> \o Format(request).s)
       /\ (screenshotOptions.quality # Undef
             <=> /\ Format(request) \in {Str(<<"jpeg">>), Str(<<"webp">>)}
                 /\ request.quality # Undef)
       /\ (screenshotOptions.quality # Undef => screenshotOptions.quality = request.quality)

\* C21: a jpeg of quality 50 has been sent as image/jpeg
C21_JpegQuality50Sent ==
  /\ stage = "sent"
  /\ request.format = Str(<<"jpeg">>)
  /\ request.quality = Num(50)
  /\ screenshotOptions.quality = Num(50)
  /\ contentType = Str(<<"image/", "jpeg">>)

\* C22: a timeout in a stage before the capture (content load, font wait,
\* image wait) aborts only that stage: the request is not answered there
\* and the pipeline goes on towards page.screenshot
C22_TimeoutBeforeCaptureIsNotFatal ==
  [][ (stage \in {"content", "fonts", "waitForAllImages"})
       => (stage' # "failed" /\ lastResponse' = lastResponse)
    ]_vars

\* C23: the image readiness wait called with the budget T is over no later
\* than T plus a constant overhead (here a second), whatever the images do
C23_WaitWithinBudget ==
  (stage = "waitForAllImages" \/ imageWait = "waitForAllImages")
    => Ms(elapsed) <= defaultImageWaitTime + Ms(1)

C25_ReadinessWaitUnlessUltrafastNoImage ==
  stage = "smartCrop"
    => IF detectedMode = "ultrafast" /\ images = <<>>
         THEN imageWait = "minimalDelay"
         ELSE imageWait = "waitForAllImages"

\* C26: a timeout or failure of the font wait does not fail the request:
\* the handler goes on to the image detection (ultrafast, fast) or to
\* waitForAllImages (standard), and no response is sent
C26_FontWaitIsNotFatal ==
  [][ (stage = "fonts")
       => (/\ stage' = (IF detectedMode = "standard" THEN "waitForAllImages" ELSE "imageDetection")
           /\ lastResponse' = lastResponse)
    ]_vars

\* C26: a request whose font wait timed out has reached the smart crop
C26_PastFontTimeout ==
  /\ fonts = "timeout"
  /\ stage = "smartCrop"
  /\ lastResponse = NoResponse

\* C27: a failure of page.close() in finally is swallowed: the step in
\* which it throws leaves the response that was sent as it is, sends no
\* other response and leaves the admission counter, which finally has
\* already decremented, as it is; a handler that awaits page.close() holds no
\* admission slot
C27_CloseFailureIsSwallowed ==
  [][ (\E b \in Insts : /\ handlers'[<<"close", b>>] < handlers[<<"close", b>>]
                        /\ instState[b] # "live")
        => /\ lastResponse' = lastResponse
           /\ successfulRequests' + failedRequests' = successfulRequests + failedRequests
           /\ activePagesCount' = activePagesCount
           /\ activePagesCount' = InFlight'
    ]_vars

\* C27: a handler whose 200 has been sent awaits page.close() on a browser
\* that has disconnected, so that the call throws; its slot is released
C27_CloseOnDisconnectedBrowser ==
  \E b \in Insts :
    /\ handlers[<<"close", b>>] > 0
    /\ instState[b] = "crashed"
    /\ lastResponse.status = 200
    /\ activePagesCount = 0

\* requests that have been answered
Answered == totalRequests - InFlight

\* C28: successfulRequests + failedRequests is the number of answered
\* requests and totalRequests that number plus the requests in flight; a
\* step that answers a request answers one, counts it as successful exactly
\* when its status is below 400 and adds its processing time to
\* totalProcessingTime; no other step changes the statistics
C28_StatisticsCountAnswers ==
  [][ /\ successfulRequests' + failedRequests' = Answered'
      /\ totalRequests' = Answered' + InFlight'
      /\ (Answered' # Answered)
           => /\ Answered' = Answered + 1
              /\ successfulRequests' =
                   successfulRequests + (IF lastResponse'.status < 400 THEN 1 ELSE 0)
              /\ failedRequests' =
                   failedRequests + (IF lastResponse'.status < 400 THEN 0 ELSE 1)
              /\ totalProcessingTime' = totalProcessingTime + processingTime'
      /\ (Answered' = Answered) => UNCHANGED statsVars
    ]_vars

\* C28: one request has been answered with an error after 2 ms, and counted
\* as failed, while another is in flight
C28_OneFailedOneInFlight ==
  /\ successfulRequests = 0
  /\ failedRequests = 1
  /\ lastResponse.status >= 400
  /\ InFlight = 1
  /\ totalRequests = 2
  /\ totalProcessingTime = 2

\* C29: GET /health answers 200 (status ok) exactly when the browser handle
\* exists and is connected and 503 with status degraded otherwise, and
\* changes none of the handle, activePagesCount and totalRequestsProcessed
C29_HealthReportsBrowser ==
  [][ (Arrival /\ handlers' = handlers /\ lastResponse'.status \notin {400, 429})
        => /\ IF browser # 0 /\ instState[browser] = "live"
                THEN lastResponse'.status = 200 /\ healthStatus' = "ok"
                ELSE lastResponse'.status = 503 /\ healthStatus' = "degraded"
           /\ UNCHANGED <<browser, instState, activePagesCount, totalRequestsProcessed>>
    ]_vars

\* C29: /health has answered 503 degraded for a handle that exists and is
\* disconnected
C29_DegradedOnDisconnect ==
  /\ healthStatus = "degraded"
  /\ lastResponse.status = 503
  /\ browser # 0
  /\ instState[browser] = "crashed"

\* C30: the process exits with code 1 when the launch of startServer fails,
\* and then the listener has never been started (no request has been taken,
\* no browser and no timer exist); the listener is started only with a
\* launched browser; once listening the process goes on listening, whatever
\* a handler or a health-probe callback does
C30_ExitOnlyAtStartup ==
  [][ /\ (server = "starting" /\ browser' = 0) => server' \in {"starting", "exit1"}
      /\ (server' = "exit1") => (totalRequests' = 0 /\ browser' = 0 /\ timers' = 0)
      /\ (server' = "listening") => timers' >= 1
      /\ (server = "listening") => server' = "listening"
    ]_vars

\* C30: after a successful startup a request has failed with 500 and a
\* health-probe callback has failed to relaunch the browser, and the
\* process is listening
C30_ListeningAfterErrors ==
  /\ server = "listening"
  /\ lastResponse.status = 500
  /\ browser # 0
  /\ instState[browser] = "crashed"
  /\ timers = 1
  /\ ProbesAt({"launch"}) = 0

\* health-probe callbacks that are running
RunningProbes == ProbesAt({"launch", "pages", "close"})

\* C31: a health-probe tick changes none of the browser handle,
\* totalRequestsProcessed, activePagesCount and the timers; when it finds
\* the browser missing or disconnected it has started a launch, otherwise it
\* awaits browser.pages(); when that returns with the browser connected and
\* totalRequestsProcessed not above restartThreshold the callback ends and
\* nothing has changed
C31_QuietTickIsNoOp ==
  [][ /\ (RunningProbes' = RunningProbes + 1)
           => /\ UNCHANGED <<browser, instState, totalRequestsProcessed, activePagesCount, timers>>
              /\ IF browser = 0 \/ instState[browser] # "live"
                   THEN probes'[<<"launch", 0>>] = probes[<<"launch", 0>>] + 1
                   ELSE probes'[<<"pages", browser>>] = probes[<<"pages", browser>>] + 1
      /\ \A b \in Insts :
           (/\ probes'[<<"pages", b>>] < probes[<<"pages", b>>]
            /\ instState[b] = "live"
            /\ totalRequestsProcessed <= restartThreshold)
             => /\ RunningProbes' = RunningProbes - 1
                /\ UNCHANGED <<browser, instState, totalRequestsProcessed, activePagesCount,
                               timers, openPages>>
    ]_vars

\* C31: a tick has found the browser connected, with totalRequestsProcessed
\* at the threshold and not above it, and awaits browser.pages()
C31_TickAtThreshold ==
  /\ browser = 1
  /\ instState[1] = "live"
  /\ probes[<<"pages", 1>>] = 1
  /\ totalRequestsProcessed = restartThreshold
  /\ timers = 1

\* a launch can still return an instance (the model has MaxInst instances)
LaunchPossible == \E b \in Insts : instState[b] = "unborn"

\* C32: whenever the browser is missing or disconnected (also in the middle
\* of a planned restart) and a launch can succeed, a state with a connected
\* browser is reached; no failure unregisters a timer, so that ticks go on
C32_BrowserRecovers ==
  /\ [](((browser = 0 \/ instState[browser] # "live") /\ LaunchPossible)
          => <>(browser # 0 /\ instState[browser] = "live"))
  /\ [][timers' >= timers /\ timers' >= 1]_vars

\* C32: the browser is disconnected and nothing is running, as after a
\* tick whose launch has failed, and a launch can still succeed
C32_DownAfterFailedLaunch ==
  /\ browser # 0
  /\ instState[browser] = "crashed"
  /\ LaunchPossible
  /\ RunningProbes = 0
  /\ Running = 0
  /\ totalRequests = 0

\* a page.screenshot call returns in this step and its request is answered 200
Success ==
  /\ HandlersAt({"screenshot"})' < HandlersAt({"screenshot"})
  /\ successfulRequests' = successfulRequests + 1

\* restartBrowser gets past its browser.close() in this step
Reset ==
  /\ ProbesAt({"close"})' < ProbesAt({"close"})
  /\ ProbesAt({"launch"})' > ProbesAt({"launch"})

\* C33: totalRequestsProcessed increases by 1 in the step of a successful
\* capture, whose X-Total-Processed header carries the incremented value; a
\* step that answers 400, 429 or 500 leaves it unchanged; it decreases only
\* to 0 and only in the reset of restartBrowser, and changes in no other step
C33_ProcessedCountsSuccesses ==
  [][ /\ Success => /\ totalRequestsProcessed' = totalRequestsProcessed + 1
                    /\ lastResponse'.status = 200
                    /\ xTotalProcessed' = totalRequestsProcessed + 1
      /\ (failedRequests' # failedRequests)
           => /\ lastResponse'.status \in {400, 429, 500}
              /\ totalRequestsProcessed' = totalRequestsProcessed
      /\ (totalRequestsProcessed' < totalRequestsProcessed)
           => (totalRequestsProcessed' = 0 /\ Reset)
      /\ (totalRequestsProcessed' # totalRequestsProcessed) => (Success \/ Reset)
    ]_vars

\* C33: the success that took the counter above the threshold carried the
\* header restartThreshold + 1, and the restart has reset the counter
C33_ResetAfterSuccess ==
  /\ lastResponse.status = 200
  /\ xTotalProcessed = restartThreshold + 1
  /\ totalRequestsProcessed = 0

WaitNeeded ==
  IF detectedMode = "ultrafast"
    THEN \E i \in 1..Len(images) : images[i].bg \/ images[i].state = "loading"
    ELSE Len(images) > 0

\* the sleep after the detection of n images, as claimed
ClaimedDelay(n) ==
  IF detectedMode = "ultrafast"
    THEN Min(ultraFastWaitTime + 200 * n, 8000) + (IF activePagesCount >= 3 THEN 300 * activePagesCount ELSE 0)
    ELSE Min(300 + 100 * n, 2000)

\* the cap of the sleep (the concurrency wait comes on top of it)
DelayCap == IF detectedMode = "ultrafast" THEN 8000 + additionalConcurrencyWait ELSE 2000

\* C35 (as claimed): the sleep after the detection of n images is
\* min(ultraFastWaitTime + 200 n, 8000) plus the concurrency wait in
\* ultrafast mode and min(300 + 100 n, 2000) in fast mode
C35_DelayIsDynamicWaitTime ==
  (stage = "delay" /\ detectedMode \in {"ultrafast", "fast"})
    => delay = ClaimedDelay(Len(images))

\* C35 (amended): when the detection has found something to wait for, the
\* sleep is the claimed one, is not below the sleep for fewer images and is
\* not above its cap; otherwise it is 200 ms in ultrafast mode and there is
\* no sleep in fast mode
C35_DelayWhenWaitNeeded ==
  (stage = "delay" /\ detectedMode \in {"ultrafast", "fast"})
    => IF WaitNeeded
         THEN /\ delay = ClaimedDelay(Len(images))
              /\ \A m \in 0..Len(images) : ClaimedDelay(m) <= delay
              /\ delay <= DelayCap
         ELSE delay = (IF detectedMode = "ultrafast" THEN 200 ELSE 0)

\* C35: the sleep of an ultrafast request with MaxDetected background images
\* and three active requests is the cap plus the concurrency wait
C35_CappedDelay ==
  /\ stage = "delay"
  /\ detectedMode = "ultrafast"
  /\ Len(images) = MaxDetected
  /\ activePagesCount = 3
  /\ delay = 8000 + 900


\* an API key is configured
KeyConfigured == apiKey # "" /\ apiKey # "disabled"

\* C36: with an API key configured a /screenshot request that presents no
\* key is answered 401 and one that presents a key other than the configured
\* one 403; a request answered 401 or 403 leaves activePagesCount, the
\* handlers and the pages unchanged; with the key 'disabled' (or empty) no
\* request is answered 401 or 403, and with the matching key neither
C36_AuthBeforeAdmission ==
  [][ Arrival =>
        /\ (KeyConfigured /\ ~Truthy(presentedKey(reqHeaders')))
             => lastResponse'.status = 401
        /\ (KeyConfigured /\ Truthy(presentedKey(reqHeaders'))
               /\ presentedKey(reqHeaders').s # <<apiKey>>)
             => lastResponse'.status = 403
        /\ (KeyConfigured /\ (~Truthy(presentedKey(reqHeaders'))
                                \/ presentedKey(reqHeaders').s # <<apiKey>>))
             => /\ activePagesCount' = activePagesCount
                /\ handlers' = handlers
                /\ openPages' = openPages
                /\ failedRequests' = failedRequests + 1
        /\ (~KeyConfigured \/ presentedKey(reqHeaders').s = <<apiKey>>)
             => /\ lastResponse'.status \in {400, 429}
                   \/ activePagesCount' = activePagesCount + 1
    ]_vars

\* C36: a request with a wrong key has been answered 403 while an admitted
\* request was in flight
C36_WrongKeyRejected ==
  /\ KeyConfigured
  /\ lastResponse.status = 403
  /\ Truthy(reqHeaders.xApiKey)
  /\ InFlight = 1
  /\ activePagesCount = 1


\* C37: at most one health-probe interval timer is registered at any time,
\* however many times initializeBrowser has run
C37_AtMostOneTimer == timers <= 1


\* the responses sent so far
Responses == successfulRequests + failedRequests

\* C38: the step in which a /screenshot request arrives either leaves its
\* handler at an await without a response or sends exactly one response, a
\* 429 or a 400; any other step sends a response exactly when a handler
\* leaves its try block, and then exactly one, a 200 or a 500; a handler
\* that returns from finally sends nothing more
C38_ExactlyOneResponse ==
  [][ /\ Arrival
           => \/ /\ InFlight' = InFlight + 1
                 /\ Responses' = Responses
              \/ /\ InFlight' = InFlight
                 /\ Responses' = Responses + 1
                 /\ lastResponse'.status \in {429, 400}
      /\ (~Arrival)
           => \/ /\ InFlight' = InFlight
                 /\ Responses' = Responses
              \/ /\ InFlight' = InFlight - 1
                 /\ Responses' = Responses + 1
                 /\ lastResponse'.status \in {200, 500}
      /\ (Running' = 0) => (Responses' = totalRequests')
    ]_vars

\* C38: two requests have been answered, one with 200 and then one with 500,
\* and both handlers have returned
C38_BothAnswered ==
  /\ totalRequests = 2
  /\ successfulRequests = 1
  /\ failedRequests = 1
  /\ lastResponse.status = 500
  /\ Running = 0


====
